---------------------------- MODULE Spec2Model ----------------------------
(***************************************************************************)
(* Conversational query orchestration of the BI agent application:         *)
(* GenieQueryTool (request / poll client), ResponseEnhancementTool,        *)
(* ForceCompletionTool and BusinessIntelligenceAgent (query,               *)
(* _direct_tool_execution, continue_conversation), driven by the chat      *)
(* session of app.py.                                                      *)
(*                                                                         *)
(* A text is a sequence of tokens.  A phrase the code searches for with    *)
(* Python's `in` is a token of its own in every text that contains it with *)
(* that exact case ("Failed" is a token of "Failed to send message to      *)
(* Genie", and is no token of "Query failed to execute").  The empty       *)
(* string is the empty sequence.  Python's None is the string "None"       *)
(* for identifiers and handles.                                            *)
(*                                                                         *)
(* Attribute reads and writes of the tool objects are modelled as plain    *)
(* Python attribute reads and writes.                                      *)
(***************************************************************************)
EXTENDS Integers, Sequences, FiniteSets, TLC

\* ------------------------------------------------------------------ bounds
MaxToolRequests == 2   \* tool requests the agent executor may make in one attempt
MaxAttachments  == 1   \* attachments of one completed message

\* ------------------------------------------------------- program constants
max_wait        == 30  \* _wait_for_response(max_wait=30)
poll_sleep      == 2   \* time.sleep(2)
request_timeout == 10  \* requests.get(url, headers=self.headers, timeout=10)
start_endpoints == 4   \* len(endpoints_to_try) in _start_conversation
pair_endpoints  == 2   \* len(endpoints_to_try) in _create_message, _get_query_results
payload_formats == 2   \* len(payload_formats) in ResponseEnhancementTool._run

None   == "None"

\* ------------------------------------------------------------------- texts
Contains(text, tok) == \E k \in 1..Len(text) : text[k] = tok

\* str.lower() on the tokens whose case the code's tests depend on
Lower(tok) ==
    CASE tok = "Iteration Limit" -> "iteration limit"
      [] tok = "Time Limit"      -> "time limit"
      [] tok = "Parsing"         -> "parsing"
      [] tok = "Describe"        -> "describe"
      [] tok = "Dataset"         -> "dataset"
      [] OTHER                   -> tok

LowerText(text) == [k \in 1..Len(text) |-> Lower(text[k])]

\* JSON values of a message's "content" that are not strings
JsonList   == <<"[json list]">>      \* a non-empty list: truthy, iterable
JsonNumber == <<"[json number]">>    \* a non-zero number: truthy, not iterable
IsStr(v)   == v # JsonList /\ v # JsonNumber

\* ------------------------------------------------------------ input domains
Questions == { <<"top business units">>, <<"Describe", "the", "Dataset">> }
ConvIds   == { "c1", "c2" }
SqlTexts  == { "SELECT a", "SELECT b" }
Tables    == { "T1", "T2" }

Columns(t) == IF t = "T1" THEN <<"a", "b">> ELSE <<"x">>
Rows(t)    == IF t = "T1" THEN << <<"1", "2">> >> ELSE << <<"7">>, <<"8">> >>

Contents  == { <<>>, <<"Sales grew">>, <<"Configuration", "of campaigns">>,
               JsonList, JsonNumber }

\* one attachment of a message: a query_result with or without a statement id,
\* or an attachment of another type
Attachment ==
    [type : {"query_result"}, query : SqlTexts, statement_id : {None, "st1"}]
      \cup { [type |-> "text", query |-> "", statement_id |-> None] }

\* "attachments": null in a message: iterating it raises TypeError
NullAttachments == << [type |-> "null", query |-> "", statement_id |-> None] >>

RECURSIVE SeqsUpTo(_, _)
SeqsUpTo(S, n) ==
    IF n = 0 THEN { <<>> }
    ELSE LET shorter == SeqsUpTo(S, n - 1)
         IN  shorter \cup { Append(s, x) : s \in { r \in shorter : Len(r) = n - 1 }, x \in S }

AttachmentLists == SeqsUpTo(Attachment, MaxAttachments)

\* host, token, space_id given to GenieQueryTool
GenieConfigs ==
    { [host |-> "https://demo", token |-> "tok", space_id |-> "S1"],
      [host |-> "https://demo", token |-> "tok", space_id |-> ""],
      [host |-> "https://demo", token |-> "",    space_id |-> "S1"],
      [host |-> "",             token |-> "tok", space_id |-> "S1"],
      [host |-> "https://demo", token |-> "YOUR_DATABRICKS_TOKEN_HERE", space_id |-> "S1"],
      [host |-> "https://demo", token |-> "tok", space_id |-> "YOUR_GENIE_SPACE_ID_HERE"] }

\* DATABRICKS_SERVING_ENDPOINT_NAME
EndpointNames == { "", "ep" }

Configs ==
    { [host |-> g.host, token |-> g.token, space_id |-> g.space_id,
       serving_endpoint_name |-> n] : g \in GenieConfigs, n \in EndpointNames }

\* str(e) of the exceptions the agent executor raises
AgentErrors ==
    { <<"Agent stopped due to", "iteration limit">>,
      <<"Agent stopped:", "Time Limit", "exceeded">>,
      <<"Parsing", "LLM output produced both a final answer and an action">>,
      <<"Connection refused">> }

\* the dict the agent executor returns
AgentResults ==
    { [has_output |-> TRUE,  output |-> <<"Final answer from the LLM">>],
      [has_output |-> TRUE,  output |-> <<>>],
      [has_output |-> FALSE, output |-> <<>>] }

EnhancedTexts == { <<"Enhanced analysis">>, <<>> }


\* ------------------------------------------------------------- fixed texts
\* GenieQueryTool._mock_response
mock_response(query) ==
    LET query_lower == LowerText(query)
    IN  IF Contains(query_lower, "describe") /\ Contains(query_lower, "dataset")
        THEN <<"Dataset Description:", "- **Sales Data**: Contains transaction records">>
        ELSE <<"Here's the analysis for your query about">> \o query
               \o <<". The data shows various patterns">>

TokenPlaceholderText ==
    <<"Configuration", "Error", ": DATABRICKS_TOKEN is still set to placeholder value.">>
SpacePlaceholderText ==
    <<"Configuration", "Error", ": GENIE_SPACE_ID is still set to placeholder value.">>
SendFailedText  == <<"Failed", "to send message to Genie">>
NoResponseText  == <<"No response received from Genie">>
QueryFailedText == <<"Query failed to execute">>

\* the return of _wait_for_response after the loop
WaitTimeoutText ==
    <<"Query timed out", "after 30 seconds. This may indicate: 1) Complex query",
      "Try a simpler question", "or check your connection.">>

\* the text _run substitutes for it
RunTimeoutText(query) ==
    <<"Genie query timed out. The question">> \o query
      \o <<"may be too complex or there may be connectivity issues. Try: 1)",
           "A simpler, more specific question",
           ", 2) Check your network connection, 3) Verify your Genie space is active.">>

RunErrorText(e)      == <<"Error", "querying Genie:">> \o e
StartFailedText(err) == <<"Failed", "to start conversation with Genie.">> \o err
UnknownErrorText     == <<"Unknown error">>
NotIterableText      == <<"argument of type 'int' is not iterable">>

\* last_error of _start_conversation for one endpoint outcome
StartErrorText(code) ==
    CASE code = "401"     -> <<"Authentication failed (401).", "Check your DATABRICKS_TOKEN permissions.">>
      [] code = "403"     -> <<"Access forbidden (403).", "Check if you have access to Genie space">>
      [] code = "404"     -> <<"Genie space not found (404).", "Check if space ID exists.">>
      [] code = "500"     -> <<"HTTP 500:", "Internal Server Error">>
      [] code = "timeout" -> <<"Request timeout.", "Check network connection to host">>
      [] code = "connerr" -> <<"Connection error.", "Check if host is accessible.">>
      [] OTHER            -> <<"Request error:", "invalid JSON">>

StartFailureCodes == { "401", "403", "404", "500", "timeout", "connerr", "exc" }

\* ------------------------------------------------------------------- state
VARIABLES
    cfg,              \* host, token, space_id, serving_endpoint_name given to the
                      \*   constructors
    enhancement_tool, \* BusinessIntelligenceAgent.enhancement_tool is not None
    genie,            \* GenieQueryTool: _conversation_id, _last_sql_query,
                      \*   _result_dataframe, and the _last_error attribute
    used,             \* ForceCompletionTool.used
    session_cid,      \* st.session_state.conversation_id
    pc,               \* position of the single thread of control
    call,             \* the orchestration call in progress
    phase,            \* which caller of GenieQueryTool._run is active
    question,         \* the call's question
    handle,           \* continue_conversation's conversation_id argument
    frame,            \* locals of GenieQueryTool._run and the calls it makes
    toolOut,          \* what GenieQueryTool._run returned last
    payload_i,        \* index into payload_formats
    base_response,    \* _direct_tool_execution's base_response
    direct_outcome,   \* how _direct_tool_execution ended: a return or a raise
    error_msg,        \* query's error_msg
    observation,      \* what the tool function returned to the agent executor last
    agent_reqs,       \* tool requests made in the running agent attempt
    result,           \* the record returned to the caller
    warehouse,        \* SQLQueryTool: its warehouse id, and the connection and the
                      \*   cursor of its _run
    hist              \* what happened in the call so far (history)

vars == << cfg, enhancement_tool, genie, used, session_cid, pc, call, phase, question,
           handle, frame, toolOut, payload_i, base_response, direct_outcome, error_msg,
           observation, agent_reqs, result, warehouse, hist >>

config_vars == << cfg, enhancement_tool >>
call_vars   == << call, question, handle >>
direct_vars == << payload_i, base_response, direct_outcome >>
agent_vars  == << error_msg, observation, agent_reqs >>

NoFrame ==
    [ query |-> <<>>, conversation_id |-> None, message_id |-> None, i |-> 0,
      elapsed |-> 0, fetch_end |-> 0, last_error |-> <<"None">>, content |-> <<>>,
      attachments |-> <<>>, observed |-> "NONE", status |-> "NONE" ]

NoRecord ==
    [ response |-> <<>>, dataframe |-> None, sql_query |-> None,
      conversation_id |-> None, success |-> FALSE ]

NoOutcome == [ kind |-> "none", value |-> NoRecord, exc |-> <<>> ]

NoHist ==
    [ directRuns   |-> 0,      \* direct call sequences started
      directRaised |-> FALSE,  \* the first direct call sequence raised
      agentRuns    |-> 0,      \* agent_executor.invoke calls
      genieRuns    |-> 0,      \* GenieQueryTool._run calls
      started      |-> FALSE,  \* a start-conversation request was sent
      postedTo     |-> None,   \* conversation a create-message request was sent to
      completed    |-> FALSE,  \* the last poll returned a COMPLETED message
      received     |-> <<>>,   \* the attachments of that message
      fetched      |-> None,   \* the table the statement endpoint returned for it
      enhanceFailed |-> 0 ]    \* enhancement requests that gave no text

\* no SQLQueryTool._run in progress: nothing opened
NoWarehouse == [ warehouse_id |-> "", connection |-> "none", cursor |-> "none" ]

Terminal == { "COMPLETED", "FAILED", "TIMED_OUT" }

Falsy(v) == v = None \/ v = ""

\* GenieQueryTool.__init__ and BusinessIntelligenceAgent.__init__
Init ==
    /\ cfg \in Configs
    /\ enhancement_tool = ~Falsy(cfg.serving_endpoint_name)
    /\ genie = [ conversation_id |-> None, last_sql_query |-> None,
                 result_dataframe |-> None, has_last_error |-> FALSE,
                 last_error |-> <<>> ]
    /\ used = FALSE
    /\ session_cid = None
    /\ pc = "idle"
    /\ call = "none"
    /\ phase = "none"
    /\ question = <<>>
    /\ handle = None
    /\ frame = NoFrame
    /\ toolOut = <<>>
    /\ payload_i = 0
    /\ base_response = <<>>
    /\ direct_outcome = NoOutcome
    /\ error_msg = <<>>
    /\ observation = <<>>
    /\ agent_reqs = 0
    /\ result = NoRecord
    /\ warehouse = NoWarehouse
    /\ hist = NoHist

\* ------------------------------------------------- GenieQueryTool._run
\* entering _run(query, conversation_id): the locals, and the call's history h
EnterRun(h, query, conversation_id) ==
    /\ frame' = [NoFrame EXCEPT !.query = query, !.conversation_id = conversation_id]
    /\ toolOut' = <<>>
    /\ hist' = [h EXCEPT !.genieRuns = @ + 1, !.completed = FALSE,
                            !.received = <<>>, !.fetched = None]
    /\ pc' = "run_entry"

\* a test of _run that takes an empty token for a configured one
Unconfigured_no_token_test(c) == Falsy(c.host) \/ Falsy(c.space_id)

\* _run's test for the mock mode (line 63)
Unconfigured(c) == Falsy(c.host) \/ Falsy(c.token) \/ Falsy(c.space_id)

\* _run up to its first network request
GenieRun ==
    /\ pc = "run_entry"
    /\ IF Unconfigured(cfg)
       THEN /\ toolOut' = mock_response(frame.query)
            /\ pc' = "run_ret"
            /\ UNCHANGED << frame, genie >>
       ELSE IF cfg.token = "YOUR_DATABRICKS_TOKEN_HERE"
       THEN /\ toolOut' = TokenPlaceholderText
            /\ pc' = "run_ret"
            /\ UNCHANGED << frame, genie >>
       ELSE IF cfg.space_id = "YOUR_GENIE_SPACE_ID_HERE"
       THEN /\ toolOut' = SpacePlaceholderText
            /\ pc' = "run_ret"
            /\ UNCHANGED << frame, genie >>
       ELSE IF Falsy(frame.conversation_id)
       THEN /\ pc' = "start"
            /\ frame' = [frame EXCEPT !.i = 1]
            /\ UNCHANGED << toolOut, genie >>
       ELSE /\ genie' = [genie EXCEPT !.conversation_id = frame.conversation_id]
            /\ pc' = "create"
            /\ frame' = [frame EXCEPT !.i = 1]
            /\ UNCHANGED toolOut
    /\ UNCHANGED << config_vars, warehouse, used, session_cid, call_vars, phase, direct_vars,
                    agent_vars, result, hist >>

\* a _run that lets the failure of every start request out as an exception
StartFailed_raises(last_error) ==
    /\ frame' = [frame EXCEPT !.last_error = last_error]
    /\ pc' = "raised"
    /\ UNCHANGED << genie, toolOut >>

\* a _run that forgets the stored conversation when no conversation starts
StartFailed_forgets(last_error) ==
    /\ genie' = [genie EXCEPT !.conversation_id = None]
    /\ frame' = [frame EXCEPT !.last_error = last_error]
    /\ toolOut' = StartFailedText(UnknownErrorText)
    /\ pc' = "run_ret"

\* the end of _start_conversation without a 200, and _run's handling of its None
StartFailed(last_error) ==
    LET stored == IF genie.has_last_error
                  THEN [genie EXCEPT !.last_error = last_error]
                  ELSE genie
        error_detail == IF stored.has_last_error THEN stored.last_error
                        ELSE UnknownErrorText
    IN  /\ genie' = stored
        /\ frame' = [frame EXCEPT !.last_error = last_error]
        /\ toolOut' = StartFailedText(error_detail)
        /\ pc' = "run_ret"

\* after a message id came back: _run goes on to poll, or gives up without one
MessagePosted(message_id) ==
    IF Falsy(message_id)
    THEN /\ frame' = [frame EXCEPT !.message_id = message_id]
         /\ toolOut' = SendFailedText
         /\ pc' = "run_ret"
    ELSE /\ frame' = [frame EXCEPT !.message_id = message_id, !.i = 0,
                                   !.last_error = <<"None">>, !.elapsed = 0,
                                   !.status = "PENDING"]
         /\ pc' = "poll"
         /\ UNCHANGED toolOut

\* _start_conversation's endpoints_to_try, in the order of the list
endpoints_to_try ==
    << "/api/2.0/genie/spaces/{space_id}/start-conversation",
       "/api/2.1/genie/spaces/{space_id}/start-conversation",
       "/api/2.0/genie/spaces/{space_id}/conversations",
       "/api/2.1/genie/spaces/{space_id}/conversations" >>

\* a loop that gives up on a 401 only
BreaksOn_401_only(code) == code = "401"

\* a loop that also gives up on the first 404
BreaksOn_404(code) == code \in { "401", "403", "404" }

\* the statuses on which _start_conversation leaves its loop early (lines 118-123)
BreaksOn(code) == code \in { "401", "403" }

\* one request of _start_conversation's loop over endpoints_to_try
start_conversation ==
    /\ pc = "start"
    /\ hist' = [hist EXCEPT !.started = TRUE]
    /\ \/ \E cid \in ConvIds, mid \in { "m1", None } :
            /\ genie' = [genie EXCEPT !.conversation_id = cid]
            /\ MessagePosted(mid)
       \/ \E code \in StartFailureCodes :
            IF BreaksOn(code) \/ frame.i = start_endpoints
            THEN StartFailed(StartErrorText(code))
            ELSE /\ frame' = [frame EXCEPT !.i = @ + 1,
                                           !.last_error = StartErrorText(code)]
                 /\ UNCHANGED << genie, toolOut, pc >>
    /\ UNCHANGED << config_vars, warehouse, used, session_cid, call_vars, phase, direct_vars,
                    agent_vars, result >>

\* one request of _create_message's loop over endpoints_to_try
create_message ==
    /\ pc = "create"
    /\ hist' = [hist EXCEPT !.postedTo = frame.conversation_id]
    /\ \/ \E mid \in { "m1", None } : MessagePosted(mid)
       \/ IF frame.i = pair_endpoints
          THEN MessagePosted(None)
          ELSE /\ frame' = [frame EXCEPT !.i = @ + 1]
               /\ UNCHANGED << toolOut, pc >>
    /\ UNCHANGED << config_vars, warehouse, genie, used, session_cid, call_vars, phase,
                    direct_vars, agent_vars, result >>

Min(a, b) == IF a < b THEN a ELSE b

\* _run's handling of what _wait_for_response returned (lines 89-99)
RunResult(genie_response, query) ==
    IF genie_response = JsonNumber
    THEN RunErrorText(NotIterableText)
    ELSE IF genie_response # <<>> /\ Contains(genie_response, "Query timed out")
    THEN RunTimeoutText(query)
    ELSE IF genie_response = <<>> THEN NoResponseText
    ELSE genie_response

\* a loop that polls again at once
Elapse_nosleep(fetch_end) == Min(max_wait, fetch_end)

\* the time of the loop's next budget test, time.sleep(2) after the status request
\* ended at fetch_end; a time past the budget counts as the budget
Elapse(fetch_end) == Min(max_wait, fetch_end + poll_sleep)

\* a poll that takes every 200 response for an answer
ReturnsOn_any200(status) == status \in { "COMPLETED", "FAILED", "PENDING" }

\* whether one status response makes _wait_for_response leave its loop
ReturnsOn(status) == status \in { "COMPLETED", "FAILED" }

\* one pass of _wait_for_response's loop: the budget test, a status request, the sleep
wait_for_response ==
    /\ pc = "poll"
    /\ IF frame.elapsed < max_wait
       THEN \E latency \in { 0, request_timeout },
               status \in { "non200", "exception", "PENDING", "COMPLETED", "FAILED" } :
              IF ~ReturnsOn(status)
              THEN /\ frame' = [frame EXCEPT
                                  !.fetch_end = frame.elapsed + latency,
                                  !.elapsed = Elapse(frame.elapsed + latency)]
                   /\ UNCHANGED << toolOut, pc, hist >>
              ELSE IF status = "FAILED"
              THEN /\ frame' = [frame EXCEPT !.observed = status, !.status = status,
                                               !.fetch_end = 0]
                   /\ toolOut' = RunResult(QueryFailedText, frame.query)
                   /\ pc' = "run_ret"
                   /\ UNCHANGED hist
              ELSE \E content \in Contents,
                      attachments \in AttachmentLists \cup { NullAttachments } :
                   IF attachments = NullAttachments
                   THEN \* the for statement raises: the loop's except sleeps
                        /\ frame' = [frame EXCEPT
                                       !.fetch_end = frame.elapsed + latency,
                                       !.elapsed = Elapse(frame.elapsed + latency)]
                        /\ UNCHANGED << toolOut, pc, hist >>
                   ELSE \* the loop never tests the time again
                        /\ frame' = [frame EXCEPT
                                       !.elapsed = 0, !.fetch_end = 0,
                                       !.observed = status,
                                       !.content = content, !.attachments = attachments]
                        /\ hist' = [hist EXCEPT !.received = attachments, !.fetched = None]
                        /\ pc' = "attach"
                        /\ UNCHANGED toolOut
       ELSE /\ frame' = [frame EXCEPT !.status = "TIMED_OUT", !.fetch_end = 0]
            /\ toolOut' = RunResult(WaitTimeoutText, frame.query)
            /\ pc' = "run_ret"
            /\ UNCHANGED hist
    /\ UNCHANGED << config_vars, warehouse, genie, used, session_cid, call_vars, phase,
                    direct_vars, agent_vars, result >>

\* one pass of the loop over the attachments of a COMPLETED message, and the
\* return of its content after the last one
completed_attachments ==
    /\ pc = "attach"
    /\ IF frame.attachments = <<>>
       THEN /\ frame' = [frame EXCEPT !.status = frame.observed]
            /\ hist' = [hist EXCEPT !.completed = TRUE]
            /\ toolOut' = RunResult(frame.content, frame.query)
            /\ pc' = "run_ret"
            /\ UNCHANGED genie
       ELSE LET attachment == Head(frame.attachments)
            IN  IF attachment.type = "query_result"
                THEN /\ genie' = [genie EXCEPT !.last_sql_query = attachment.query]
                     /\ IF Falsy(attachment.statement_id)
                        THEN /\ frame' = [frame EXCEPT !.attachments = Tail(@)]
                             /\ UNCHANGED pc
                        ELSE /\ frame' = [frame EXCEPT !.i = 1]
                             /\ pc' = "fetch"
                     /\ UNCHANGED << toolOut, hist >>
                ELSE /\ frame' = [frame EXCEPT !.attachments = Tail(@)]
                     /\ UNCHANGED << genie, toolOut, pc, hist >>
    /\ UNCHANGED << config_vars, warehouse, used, session_cid, call_vars, phase, direct_vars,
                    agent_vars, result >>

\* one request of _get_query_results' loop over endpoints_to_try
get_query_results ==
    /\ pc = "fetch"
    /\ \/ \E table \in Tables :
            /\ genie' = [genie EXCEPT !.result_dataframe = table]
            /\ hist' = [hist EXCEPT !.fetched = table]
            /\ frame' = [frame EXCEPT !.attachments = Tail(@), !.i = 0]
            /\ pc' = "attach"
       \/ \E outcome \in { "no result", "non200", "exception" } :
            /\ IF frame.i = pair_endpoints
               THEN /\ frame' = [frame EXCEPT !.attachments = Tail(@), !.i = 0]
                    /\ pc' = "attach"
               ELSE /\ frame' = [frame EXCEPT !.i = @ + 1]
                    /\ UNCHANGED pc
            /\ UNCHANGED << genie, hist >>
    /\ UNCHANGED << config_vars, warehouse, used, session_cid, call_vars, phase, toolOut,
                    direct_vars, agent_vars, result >>

\* -------------------------- BusinessIntelligenceAgent._direct_tool_execution
HasFailureWord(text) ==
    Contains(text, "Failed") \/ Contains(text, "Error") \/ Contains(text, "Configuration")

RECURSIVE Flatten(_)
Flatten(rows) == IF rows = <<>> THEN <<>> ELSE Head(rows) \o Flatten(Tail(rows))

\* DataFrame.to_string(max_rows=10, index=False)
to_string(dataframe) == Columns(dataframe) \o Flatten(Rows(dataframe))

DirectIssueText(genie_result) ==
    <<"I encountered an issue accessing the business intelligence data:">> \o genie_result

\* "\n\n".join(response_parts)
BaseResponse(q, genie_result, sql_query, dataframe) ==
    <<"Based on your question">> \o q
      \o <<", here are the results from the business intelligence system:">>
      \o genie_result
      \o (IF Falsy(sql_query) THEN <<>> ELSE <<"Generated SQL Query:", sql_query>>)
      \o (IF dataframe # None /\ Rows(dataframe) # <<>>
          THEN <<"Data Results:">> \o to_string(dataframe) ELSE <<>>)

JoinTypeErrorText == <<"sequence item 1: expected str instance, list found">>

Returned(record) == [ kind |-> "return", value |-> record, exc |-> <<>> ]
Raised(e)        == [ kind |-> "raise", value |-> NoRecord, exc |-> e ]

\* a success record that leaves the tool's SQL text out
DirectRecord_nosql(response) ==
    [ response |-> response, dataframe |-> genie.result_dataframe,
      sql_query |-> None, conversation_id |-> genie.conversation_id,
      success |-> TRUE ]

\* the success record of _direct_tool_execution (lines 313-319)
DirectRecord(response) ==
    [ response |-> response, dataframe |-> genie.result_dataframe,
      sql_query |-> genie.last_sql_query, conversation_id |-> genie.conversation_id,
      success |-> TRUE ]

\* _direct_tool_execution's except clause (lines 321-328)
DirectExcept(e) ==
    Returned([ response |-> <<"I encountered an issue with direct tool execution:">> \o e
                     \o <<". Please check your Databricks configuration and try again.">>,
               dataframe |-> None, sql_query |-> None, conversation_id |-> None,
               success |-> FALSE ])

\* _direct_tool_execution from the return of genie_tool._run to the enhancement call
direct_tool_execution ==
    /\ pc = "run_ret"
    /\ phase \in { "direct", "retry" }
    /\ IF HasFailureWord(toolOut)
       THEN /\ direct_outcome' = Returned(DirectRecord(DirectIssueText(toolOut)))
            /\ pc' = "direct_ret"
            /\ UNCHANGED << payload_i, base_response, hist >>
       ELSE IF ~IsStr(toolOut)
       THEN \* join raises TypeError, caught by the except clause
            /\ direct_outcome' = DirectExcept(JoinTypeErrorText)
            /\ hist' = [hist EXCEPT !.directRaised = @ \/ phase = "direct"]
            /\ pc' = "direct_ret"
            /\ UNCHANGED << payload_i, base_response >>
       ELSE LET base == BaseResponse(question, toolOut, genie.last_sql_query,
                                     genie.result_dataframe)
            IN  IF enhancement_tool
                THEN /\ base_response' = base
                     /\ payload_i' = 1
                     /\ pc' = "enhance"
                     /\ UNCHANGED << direct_outcome, hist >>
                ELSE /\ direct_outcome' = Returned(DirectRecord(base))
                     /\ pc' = "direct_ret"
                     /\ UNCHANGED << payload_i, base_response, hist >>
    /\ frame' = NoFrame
    /\ UNCHANGED << config_vars, warehouse, genie, used, session_cid, call_vars, phase,
                    toolOut, agent_vars, result >>

\* an endpoint_url built whatever the endpoint name is
endpoint_url_always(c) ==
    << c.host, "/serving-endpoints/", c.serving_endpoint_name, "/invocations" >>

\* ResponseEnhancementTool.__init__: endpoint_url, the empty string for no endpoint
endpoint_url(c) ==
    IF Falsy(c.serving_endpoint_name) THEN <<>>
    ELSE << c.host, "/serving-endpoints/", c.serving_endpoint_name, "/invocations" >>

\* ResponseEnhancementTool._run returns text: to _direct_tool_execution, which
\* takes it for its response, or to the caller that ran the tool on its own
EnhanceReturns(text) ==
    IF phase = "enhance_tool"
    THEN /\ toolOut' = text
         /\ pc' = "enhance_ret"
         /\ UNCHANGED direct_outcome
    ELSE /\ direct_outcome' = Returned(DirectRecord(text))
         /\ pc' = "direct_ret"
         /\ UNCHANGED toolOut

\* a loop whose last request lets its exception out
enhance_response_raises ==
    /\ pc = "enhance"
    /\ \/ \E text \in EnhancedTexts \cup { base_response } :
            /\ EnhanceReturns(text)
            /\ UNCHANGED << payload_i, hist >>
       \/ \E outcome \in { "non200", "exception", "unrecognized" } :
            /\ hist' = [hist EXCEPT !.enhanceFailed = @ + 1]
            /\ IF payload_i = payload_formats
               THEN /\ IF outcome = "exception"
                       THEN pc' = "raised" /\ UNCHANGED << direct_outcome, toolOut >>
                       ELSE EnhanceReturns(base_response)
                    /\ UNCHANGED payload_i
               ELSE /\ payload_i' = payload_i + 1
                    /\ UNCHANGED << direct_outcome, toolOut, pc >>
    /\ UNCHANGED << config_vars, warehouse, genie, used, session_cid, call_vars, phase, frame,
                    base_response, agent_vars, result >>

\* one request of ResponseEnhancementTool._run's loop over payload_formats
enhance_response ==
    /\ pc = "enhance"
    /\ \/ \E text \in EnhancedTexts \cup { base_response } :
            /\ EnhanceReturns(text)
            /\ UNCHANGED << payload_i, hist >>
       \/ \E outcome \in { "non200", "exception", "unrecognized" } :
            /\ hist' = [hist EXCEPT !.enhanceFailed = @ + 1]
            /\ IF payload_i = payload_formats
               THEN /\ EnhanceReturns(base_response)
                    /\ UNCHANGED payload_i
               ELSE /\ payload_i' = payload_i + 1
                    /\ UNCHANGED << direct_outcome, toolOut, pc >>
    /\ UNCHANGED << config_vars, warehouse, genie, used, session_cid, call_vars, phase, frame,
                    base_response, agent_vars, result >>

\* ------------------------------------------- BusinessIntelligenceAgent.query
\* the record of the FINAL FALLBACK (lines 257-267)
FinalFallback(msg) ==
    LET shown == IF Contains(LowerText(msg), "parsing")
                 THEN <<"There was an issue understanding the query format.",
                        "Please try rephrasing your question.">>
                 ELSE msg
    IN  [ response |-> <<"I encountered an issue processing your query:">> \o shown
                         \o <<". Please check your Databricks configuration and try again.">>,
          dataframe |-> None, sql_query |-> None, conversation_id |-> None,
          success |-> FALSE ]

\* a test that knows the step budget only
IsBudgetError_iteration_only(msg) == Contains(LowerText(msg), "iteration limit")

IsBudgetError(msg) ==
    Contains(LowerText(msg), "iteration limit") \/ Contains(LowerText(msg), "time limit")

\* a first try block that returns whatever _direct_tool_execution returned
query_direct_attempt_nocheck ==
    /\ pc = "direct_ret"
    /\ phase = "direct"
    /\ IF direct_outcome.kind = "return"
       THEN /\ result' = direct_outcome.value
            /\ pc' = "done"
            /\ UNCHANGED << phase, agent_vars, hist >>
       ELSE /\ phase' = "agent"
            /\ pc' = "agent"
            /\ agent_reqs' = 0
            /\ hist' = [hist EXCEPT !.agentRuns = @ + 1]
            /\ UNCHANGED << result, error_msg, observation >>
    /\ UNCHANGED << config_vars, warehouse, genie, used, session_cid, call_vars, frame, toolOut,
                    direct_vars >>

\* query's first try block, after _direct_tool_execution ended (lines 215-227)
query_direct_attempt ==
    /\ pc = "direct_ret"
    /\ phase = "direct"
    /\ IF direct_outcome.kind = "return" /\ direct_outcome.value.success
       THEN /\ result' = direct_outcome.value
            /\ pc' = "done"
            /\ UNCHANGED << phase, agent_vars, hist >>
       ELSE /\ phase' = "agent"
            /\ pc' = "agent"
            /\ agent_reqs' = 0
            /\ hist' = [hist EXCEPT !.agentRuns = @ + 1]
            /\ UNCHANGED << result, error_msg, observation >>
    /\ UNCHANGED << config_vars, warehouse, genie, used, session_cid, call_vars, frame, toolOut,
                    direct_vars >>

\* query's TERTIARY APPROACH, after _direct_tool_execution ended (lines 252-267)
query_direct_retry ==
    /\ pc = "direct_ret"
    /\ phase = "retry"
    /\ result' = IF direct_outcome.kind = "return" THEN direct_outcome.value
                 ELSE FinalFallback(error_msg)
    /\ pc' = "done"
    /\ UNCHANGED << config_vars, warehouse, genie, used, session_cid, call_vars, phase, frame,
                    toolOut, direct_vars, agent_vars, hist >>

\* ------------------------------------------------------ the agent executor
ToolUsedText == <<"Tool already used. Please provide Final Answer.">>

\* ForceCompletionTool._run's return for what the wrapped tool returned
ForcedObservation(tool_result) ==
    IF HasFailureWord(tool_result)
    THEN tool_result \o <<"IMPORTANT: This tool has failed.",
                          "You must now provide a Final Answer explaining the issue to the user.">>
    ELSE tool_result \o <<"IMPORTANT: This tool has completed successfully.",
                          "You must now provide a Final Answer with these results.">>

\* a wrapper that passes every request on to the wrapped tool
force_completion_run_unguarded ==
    /\ pc = "agent"
    /\ agent_reqs < MaxToolRequests
    /\ agent_reqs' = agent_reqs + 1
    /\ used' = TRUE
    /\ \E tool_input \in Questions : EnterRun(hist, tool_input, None)
    /\ UNCHANGED << config_vars, warehouse, genie, session_cid, call_vars, phase,
                    direct_vars, error_msg, observation, result >>

\* the executor calls the genie_query tool: ForceCompletionTool._run (lines 32-38)
force_completion_run ==
    /\ pc = "agent"
    /\ agent_reqs < MaxToolRequests
    /\ agent_reqs' = agent_reqs + 1
    /\ IF used
       THEN /\ observation' = ToolUsedText
            /\ UNCHANGED << used, frame, toolOut, hist, pc >>
       ELSE /\ used' = TRUE
            /\ \E tool_input \in Questions : EnterRun(hist, tool_input, None)
            /\ UNCHANGED observation
    /\ UNCHANGED << config_vars, warehouse, genie, session_cid, call_vars, phase,
                    direct_vars, error_msg, result >>

\* a wrapper that is ready for use again once the wrapped tool returned
force_completion_return_resets ==
    /\ pc = "run_ret"
    /\ phase = "agent"
    /\ observation' = ForcedObservation(toolOut)
    /\ pc' = "agent"
    /\ frame' = NoFrame
    /\ used' = FALSE
    /\ UNCHANGED << config_vars, warehouse, genie, session_cid, call_vars, phase,
                    toolOut, direct_vars, error_msg, agent_reqs, result, hist >>

\* the wrapped tool returned: ForceCompletionTool._run (lines 40-44)
force_completion_return ==
    /\ pc = "run_ret"
    /\ phase = "agent"
    /\ observation' = ForcedObservation(toolOut)
    /\ pc' = "agent"
    /\ frame' = NoFrame
    /\ UNCHANGED << config_vars, warehouse, genie, used, session_cid, call_vars, phase,
                    toolOut, direct_vars, error_msg, agent_reqs, result, hist >>

\* dict.get(key, default) on the executor's result
GetOutput(agent_result, default) ==
    IF agent_result.has_output THEN agent_result.output ELSE default

NoOutputText(q) ==
    <<"I processed your question about">> \o q
      \o <<"but encountered technical difficulties.",
           "Please check your Databricks configuration.">>

\* agent_executor.invoke returned: query lines 229-245, continue_conversation 347-353
agent_returns ==
    /\ pc = "agent"
    /\ \E agent_result \in AgentResults :
         IF call = "query"
         THEN LET output == GetOutput(agent_result, <<>>)
              IN  result' = [ response |-> IF output = <<>> THEN NoOutputText(question)
                                           ELSE output,
                              dataframe |-> genie.result_dataframe,
                              sql_query |-> genie.last_sql_query,
                              conversation_id |-> genie.conversation_id,
                              success |-> TRUE ]
         ELSE result' = [ response |-> GetOutput(agent_result, <<"No response generated">>),
                          dataframe |-> genie.result_dataframe,
                          sql_query |-> genie.last_sql_query,
                          conversation_id |-> handle,
                          success |-> TRUE ]
    /\ pc' = "done"
    /\ observation' = <<>>
    /\ agent_reqs' = 0
    /\ UNCHANGED << config_vars, warehouse, genie, used, session_cid, call_vars, phase, frame,
                    toolOut, direct_vars, error_msg, hist >>

\* an except clause that answers a budget error by invoking the executor again
agent_raises_again ==
    /\ pc = "agent"
    /\ \E e \in AgentErrors :
         /\ error_msg' = e
         /\ IF call = "query"
            THEN IF IsBudgetError(e)
                 THEN UNCHANGED << result, phase, frame, toolOut, hist, pc >>
                 ELSE /\ result' = FinalFallback(e)
                      /\ pc' = "done"
                      /\ UNCHANGED << phase, frame, toolOut, hist >>
            ELSE /\ result' = [ response |-> <<"Error", "continuing conversation:">> \o e,
                                dataframe |-> None, sql_query |-> None,
                                conversation_id |-> handle, success |-> FALSE ]
                 /\ pc' = "done"
                 /\ UNCHANGED << phase, frame, toolOut, hist >>
    /\ observation' = <<>>
    /\ agent_reqs' = 0
    /\ UNCHANGED << config_vars, warehouse, genie, used, session_cid, call_vars, direct_vars >>

\* an except clause that handles the budget errors and re-raises the others
agent_raises_reraise ==
    /\ pc = "agent"
    /\ \E e \in AgentErrors :
         /\ error_msg' = e
         /\ IF call = "query"
            THEN IF IsBudgetError(e)
                 THEN /\ phase' = "retry"
                      /\ EnterRun([hist EXCEPT !.directRuns = @ + 1], question, None)
                      /\ UNCHANGED result
                 ELSE /\ pc' = "raised"
                      /\ UNCHANGED << result, phase, frame, toolOut, hist >>
            ELSE /\ result' = [ response |-> <<"Error", "continuing conversation:">> \o e,
                                dataframe |-> None, sql_query |-> None,
                                conversation_id |-> handle, success |-> FALSE ]
                 /\ pc' = "done"
                 /\ UNCHANGED << phase, frame, toolOut, hist >>
    /\ observation' = <<>>
    /\ agent_reqs' = 0
    /\ UNCHANGED << config_vars, warehouse, genie, used, session_cid, call_vars, direct_vars >>

\* agent_executor.invoke raised: query lines 247-267, continue_conversation 355-362
agent_raises ==
    /\ pc = "agent"
    /\ \E e \in AgentErrors :
         /\ error_msg' = e
         /\ IF call = "query"
            THEN IF IsBudgetError(e)
                 THEN /\ phase' = "retry"
                      /\ EnterRun([hist EXCEPT !.directRuns = @ + 1], question, None)
                      /\ UNCHANGED result
                 ELSE /\ result' = FinalFallback(e)
                      /\ pc' = "done"
                      /\ UNCHANGED << phase, frame, toolOut, hist >>
            ELSE /\ result' = [ response |-> <<"Error", "continuing conversation:">> \o e,
                                dataframe |-> None, sql_query |-> None,
                                conversation_id |-> handle, success |-> FALSE ]
                 /\ pc' = "done"
                 /\ UNCHANGED << phase, frame, toolOut, hist >>
    /\ observation' = <<>>
    /\ agent_reqs' = 0
    /\ UNCHANGED << config_vars, warehouse, genie, used, session_cid, call_vars, direct_vars >>

\* ----------------------------------------------------------------- callers
\* app.py: a chat input with no conversation stored calls bi_agent.query
query ==
    /\ pc = "idle"
    /\ Falsy(session_cid)
    /\ \E q \in Questions :
         /\ question' = q
         /\ EnterRun([NoHist EXCEPT !.directRuns = 1], q, None)
    /\ call' = "query"
    /\ phase' = "direct"
    /\ UNCHANGED << config_vars, warehouse, genie, used, session_cid, handle,
                    direct_vars, agent_vars, result >>

\* app.py: a chat input with a conversation stored calls continue_conversation,
\* which invokes the agent executor on the modified question
continue_conversation ==
    /\ pc = "idle"
    /\ ~Falsy(session_cid)
    /\ \E q \in Questions : question' = q
    /\ handle' = session_cid
    /\ call' = "continue"
    /\ phase' = "agent"
    /\ pc' = "agent"
    /\ agent_reqs' = 0
    /\ hist' = [NoHist EXCEPT !.agentRuns = 1]
    /\ UNCHANGED << config_vars, warehouse, genie, used, session_cid, frame, toolOut,
                    direct_vars, error_msg, observation, result >>

\* the locals of a finished call are dropped
CallEnds ==
    /\ pc' = "idle"
    /\ call' = "none"
    /\ phase' = "none"
    /\ question' = <<>>
    /\ handle' = None
    /\ frame' = NoFrame
    /\ toolOut' = <<>>
    /\ payload_i' = 0
    /\ base_response' = <<>>
    /\ direct_outcome' = NoOutcome
    /\ error_msg' = <<>>
    /\ observation' = <<>>
    /\ agent_reqs' = 0
    /\ result' = NoRecord
    /\ hist' = NoHist

\* app.py: the result of the call is handled, the conversation id of a success kept
app_result ==
    /\ pc = "done"
    /\ session_cid' = IF result.success /\ ~Falsy(result.conversation_id)
                      THEN result.conversation_id ELSE session_cid
    /\ CallEnds
    /\ UNCHANGED << config_vars, warehouse, genie, used >>

\* app.py: Clear Chat History
clear_chat ==
    /\ pc = "idle"
    /\ session_cid # None
    /\ session_cid' = None
    /\ UNCHANGED << config_vars, warehouse, genie, used, pc, call_vars, phase, frame, toolOut,
                    direct_vars, agent_vars, result, hist >>

\* the genie_query tool run on its own, with the arguments of GenieQueryInput
genie_tool_run ==
    /\ pc = "idle"
    /\ \E q \in Questions, conversation_id \in ConvIds \cup { None } :
         EnterRun(NoHist, q, conversation_id)
    /\ call' = "tool"
    /\ phase' = "tool"
    /\ UNCHANGED << config_vars, warehouse, genie, used, session_cid, question, handle,
                    direct_vars, agent_vars, result >>

genie_tool_returns ==
    /\ pc = "run_ret"
    /\ phase = "tool"
    /\ CallEnds
    /\ UNCHANGED << config_vars, warehouse, genie, used, session_cid >>

\* the drafts given to the enhance_response tool run on its own
Drafts == { <<"Sales grew">>, <<"Based on your question", "Sales grew">> }

\* the enhance_response tool run on its own, with the arguments of
\* ResponseEnhancementInput; sql_query and query_results enter only the prompt
enhancement_tool_run ==
    /\ pc = "idle"
    /\ \E original_response \in Drafts, sql_query \in SqlTexts \cup { "" },
          query_results \in { "", "a b 1 2" } :
         /\ base_response' = original_response
         /\ IF endpoint_url(cfg) = <<>>
            THEN /\ toolOut' = original_response
                 /\ payload_i' = 0
                 /\ pc' = "enhance_ret"
            ELSE /\ payload_i' = 1
                 /\ pc' = "enhance"
                 /\ UNCHANGED toolOut
    /\ call' = "tool"
    /\ phase' = "enhance_tool"
    /\ UNCHANGED << config_vars, warehouse, genie, used, session_cid, question, handle, frame,
                    direct_outcome, agent_vars, result, hist >>

enhancement_tool_returns ==
    /\ pc = "enhance_ret"
    /\ CallEnds
    /\ UNCHANGED << config_vars, warehouse, genie, used, session_cid >>

\* ----------------------------------------------------- SQLQueryTool._run
WarehouseIds == { "", "W1" }

SqlLocalModeText    == <<"SQL query not available in local mode">>
SqlNoResultsText    == <<"No results found">>
SqlErrorText(e)     == <<"Error", "executing SQL query:">> \o e
SqlSuccessText(df)  == <<"Query executed successfully. Results:">> \o to_string(df)

\* str(e) of the exceptions of connect, cursor, execute and fetchall_arrow
SqlErrors == { <<"connection refused">>, <<"syntax error">> }

\* with statements that close the cursor only
ExitWith_cursor_only(w) ==
    [w EXCEPT !.cursor = IF @ = "open" THEN "closed" ELSE @]

\* leaving the two with statements, by a return or by an exception: the cursor
\* and the connection that were opened are closed
ExitWith(w) ==
    [w EXCEPT !.cursor     = IF @ = "open" THEN "closed" ELSE @,
              !.connection = IF @ = "open" THEN "closed" ELSE @]

\* a SQLQueryTool built on host, token and a warehouse id is run on a query:
\* the local mode test and sql.connect
sql_tool_run ==
    /\ pc = "idle"
    /\ \E sql_text \in SqlTexts, warehouse_id \in WarehouseIds :
         /\ question' = << sql_text >>
         /\ IF Falsy(cfg.host) \/ Falsy(cfg.token) \/ Falsy(warehouse_id)
            THEN /\ warehouse' = [NoWarehouse EXCEPT !.warehouse_id = warehouse_id]
                 /\ toolOut' = SqlLocalModeText
                 /\ pc' = "sql_ret"
            ELSE \/ \E e \in SqlErrors :
                      /\ warehouse' = [NoWarehouse EXCEPT !.warehouse_id = warehouse_id]
                      /\ toolOut' = SqlErrorText(e)
                      /\ pc' = "sql_ret"
                 \/ /\ warehouse' = [NoWarehouse EXCEPT !.warehouse_id = warehouse_id,
                                                       !.connection = "open"]
                    /\ pc' = "sql_cursor"
                    /\ UNCHANGED toolOut
    /\ call' = "tool"
    /\ phase' = "sql_tool"
    /\ UNCHANGED << config_vars, genie, used, session_cid, handle, frame, direct_vars,
                    agent_vars, result, hist >>

\* connection.cursor()
sql_cursor ==
    /\ pc = "sql_cursor"
    /\ \/ \E e \in SqlErrors :
            /\ warehouse' = ExitWith(warehouse)
            /\ toolOut' = SqlErrorText(e)
            /\ pc' = "sql_ret"
       \/ /\ warehouse' = [warehouse EXCEPT !.cursor = "open"]
          /\ pc' = "sql_execute"
          /\ UNCHANGED toolOut
    /\ UNCHANGED << config_vars, genie, used, session_cid, call_vars, phase, frame,
                    direct_vars, agent_vars, result, hist >>

\* cursor.execute, fetchall_arrow and the return of the text
sql_execute ==
    /\ pc = "sql_execute"
    /\ \/ \E e \in SqlErrors : toolOut' = SqlErrorText(e)
       \/ toolOut' = SqlNoResultsText
       \/ \E df \in Tables : toolOut' = SqlSuccessText(df)
    /\ warehouse' = ExitWith(warehouse)
    /\ pc' = "sql_ret"
    /\ UNCHANGED << config_vars, genie, used, session_cid, call_vars, phase, frame,
                    direct_vars, agent_vars, result, hist >>

sql_tool_returns ==
    /\ pc = "sql_ret"
    /\ CallEnds
    /\ warehouse' = NoWarehouse
    /\ UNCHANGED << config_vars, genie, used, session_cid >>

\* the application: the chat session of app.py driving the agent
Next ==
    \/ query
    \/ continue_conversation
    \/ app_result
    \/ clear_chat
    \/ GenieRun
    \/ start_conversation
    \/ wait_for_response
    \/ completed_attachments
    \/ get_query_results
    \/ direct_tool_execution
    \/ enhance_response
    \/ query_direct_attempt
    \/ query_direct_retry
    \/ force_completion_run
    \/ force_completion_return
    \/ agent_returns
    \/ agent_raises

Spec == Init /\ [][Next]_vars

\* the application, and the tools also run on their own.  Only there is _run passed
\* a conversation id, and so _create_message reached, and only there has a
\* ResponseEnhancementTool no endpoint
ToolNext ==
    \/ Next
    \/ genie_tool_run
    \/ genie_tool_returns
    \/ create_message
    \/ enhancement_tool_run
    \/ enhancement_tool_returns
    \/ sql_tool_run
    \/ sql_cursor
    \/ sql_execute
    \/ sql_tool_returns

ToolSpec == Init /\ [][ToolNext]_vars

\* a step of the call in progress; between calls the session waits for the user
CallStep == pc # "idle" /\ Next

\* the application kept running: a call in progress takes its next step
LiveSpec == Init /\ [][Next]_vars /\ WF_vars(CallStep)

\* ==================================================================== claims
Returned_(c) == pc = "done" /\ call = c

SimplifyHint == "A simpler, more specific question"

\* _run is back from _wait_for_response
PollReturned == pc = "run_ret" /\ frame.status # "NONE"

PollReturnsTerminal ==
    /\ PollReturned => frame.status \in Terminal
    /\ pc \in { "poll", "attach", "fetch" } => frame.status = "PENDING"
    /\ PollReturned /\ frame.status = "TIMED_OUT"
         => frame.elapsed >= max_wait /\ Contains(toolOut, SimplifyHint)

PollStep ==
    /\ frame.status \in Terminal => frame'.status \in { frame.status, "NONE" }
    /\ pc = "poll" /\ frame.elapsed >= max_wait
         => pc' = "run_ret" /\ frame'.status = "TIMED_OUT"
              /\ Contains(toolOut', SimplifyHint)

\* C1: _wait_for_response returns only with the message COMPLETED, FAILED or
\* TIMED_OUT, a message that reached one of these never changes status again, and a
\* poll whose wait budget has elapsed with the message still PENDING ends TIMED_OUT
\* with a text that suggests a simpler question.
C1_PollTerminal == []PollReturnsTerminal /\ [][PollStep]_vars

C1_Witness == PollReturned /\ frame.status = "TIMED_OUT" /\ frame.elapsed >= max_wait

\* C2: query never raises to its caller: whatever the direct attempt, the agent
\* executor and the direct retry do, the call ends with a returned record whose
\* success flag is TRUE or FALSE.
C2_QueryNeverRaises ==
    /\ pc # "raised"
    /\ Returned_("query") => result.success \in BOOLEAN /\ result # NoRecord
    /\ call = "query" /\ pc \notin { "done", "idle" } => ENABLED Next

C2_Witness ==
    /\ Returned_("query") /\ ~result.success
    /\ hist.directRaised /\ hist.agentRuns = 1 /\ hist.directRuns = 2

FailurePhrase(text) ==
    \/ Contains(LowerText(text), "iteration limit")
    \/ Contains(LowerText(text), "time limit")
    \/ Contains(LowerText(text), "parsing")
    \/ Contains(text, "There was an issue understanding the query format.")

\* C3: every record query returns with success = FALSE has a non-empty response
\* that contains an iteration-limit, time-limit or parsing-issue phrase.
C3_FailureNamesClass ==
    Returned_("query") /\ ~result.success
      => result.response # <<>> /\ FailurePhrase(result.response)

\* C4: every record query or continue_conversation returns with success = TRUE
\* has a non-empty response.
C4_SuccessHasText ==
    pc = "done" /\ call \in { "query", "continue" } /\ result.success
      => result.response # <<>>

StartFailedReturn ==
    /\ pc = "run_ret"
    /\ Len(toolOut) >= 2
    /\ toolOut[2] = "to start conversation with Genie."

\* C5: when no endpoint variant accepts the start request, the text _run returns
\* names the last status or failure class _start_conversation observed.
C5_StartFailureNamesLast ==
    StartFailedReturn => toolOut = StartFailedText(frame.last_error)

\* C6: a query whose message came back COMPLETED with no attachments returns a
\* record with no dataframe and no SQL text, whatever calls went before.
C6_NoAttachmentNoData ==
    Returned_("query") /\ hist.completed /\ hist.received = <<>>
      => result.dataframe = None /\ result.sql_query = None

\* the message of the call came back COMPLETED with one query_result attachment
\* that has a statement id, and the statement endpoint returned a table
OneAttachmentFetched ==
    /\ hist.completed
    /\ Len(hist.received) = 1
    /\ hist.received[1].type = "query_result"
    /\ ~Falsy(hist.received[1].statement_id)
    /\ hist.fetched # None

\* C7 as stated: in that case the returned record carries the table and the
\* attachment's SQL text.
C7_AttachmentReturned ==
    Returned_("query") /\ OneAttachmentFetched
      => result.dataframe = hist.fetched /\ result.sql_query = hist.received[1].query

\* C7 amended: in that case every success record query returns carries the table
\* the statement endpoint returned and the attachment's SQL text.
C7_AttachmentReturnedOnSuccess ==
    Returned_("query") /\ OneAttachmentFetched /\ result.success
      => result.dataframe = hist.fetched /\ result.sql_query = hist.received[1].query

C7_Witness ==
    /\ Returned_("query") /\ OneAttachmentFetched /\ result.success
    /\ hist.agentRuns = 0
    /\ result.dataframe = "T1" /\ Columns(result.dataframe) = <<"a", "b">>
    /\ Rows(result.dataframe) = << <<"1", "2">> >>

\* C8: continue_conversation posts the question to the conversation of its handle
\* and never starts a new backend conversation.
C8_ContinuePostsToHandle ==
    call = "continue"
      => /\ ~hist.started
         /\ hist.genieRuns > 0 /\ pc \in { "poll", "done" } => hist.postedTo = handle

\* C9: in every orchestration call the agent executor is invoked only after a
\* direct attempt was made in that call.
C9_DirectFirst ==
    call \in { "query", "continue" } /\ hist.agentRuns > 0 => hist.directRuns > 0

\* C10: in query the agent executor is invoked exactly when the direct attempt's
\* call sequence raised; a direct attempt that completes is returned without the
\* agent, and a direct attempt that raised is never what the caller gets from it.
C10_AgentIffDirectRaised ==
    call = "query"
      => /\ hist.agentRuns > 0 => hist.directRaised
         /\ hist.directRaised /\ ~(pc = "direct_ret" /\ phase = "direct")
              => hist.agentRuns = 1
         /\ pc = "done" /\ hist.agentRuns = 0
              => result.success /\ result = direct_outcome.value /\ hist.directRuns = 1
         /\ pc # "raised"

C10_Witness ==
    /\ call = "query" /\ pc = "agent" /\ hist.directRaised /\ hist.agentRuns = 1
    /\ ~direct_outcome.value.success

\* the text of the exception the agent executor raised in this call says that its
\* step budget or its time budget was exceeded
BudgetExceeded ==
    \/ Contains(LowerText(error_msg), "iteration limit")
    \/ Contains(LowerText(error_msg), "time limit")

\* C11: in query the direct retry is entered exactly when the agent executor
\* raised a step-budget or time-budget error, and the retry runs the direct call
\* sequence exactly once more (two direct runs, one agent run in the call); what
\* the retry returns is what query returns.
C11_BudgetRetriesOnce ==
    call = "query"
      => /\ hist.directRuns \in { 1, 2 }
         /\ BudgetExceeded <=> phase = "retry"
         /\ phase = "retry" => hist.directRuns = 2 /\ hist.agentRuns = 1
         /\ phase # "retry" => hist.directRuns = 1
         /\ pc = "done" /\ phase = "retry"
              => result = direct_outcome.value /\ hist.genieRuns >= 2

C11_Witness ==
    /\ Returned_("query") /\ BudgetExceeded /\ phase = "retry"
    /\ Contains(error_msg, "Time Limit")
    /\ hist.directRuns = 2 /\ result.success

MentionsBudget(text) ==
    \/ Contains(LowerText(text), "iteration limit")
    \/ Contains(LowerText(text), "time limit")

\* C12: when the agent executor hit its budget and the direct retry failed too,
\* the success = FALSE record query returns mentions the iteration limit or the
\* time limit.
C12_RetryFailureMentionsBudget ==
    Returned_("query") /\ BudgetExceeded /\ ~result.success
      => MentionsBudget(result.response)

\* C13: in every agentic attempt the first tool request reaches
\* GenieQueryTool._run, and every further request of the attempt is answered with
\* the "Tool already used" text.
C13_OneClientCallPerAttempt ==
    phase = "agent" /\ pc = "agent" /\ agent_reqs >= 1
      => /\ hist.genieRuns - hist.directRuns = 1
         /\ agent_reqs >= 2 => observation = ToolUsedText

\* text a occurs in text b, token for token
IsInfix(a, b) ==
    \E k \in 0..(Len(b) - Len(a)) : SubSeq(b, k + 1, k + Len(a)) = a

\* C14: when the last output of GenieQueryTool._run in a call contains "Failed",
\* "Error" or "Configuration", the response of the record the call returns
\* contains that output verbatim.
C14_FailureTextVerbatim ==
    /\ pc = "done" /\ call \in { "query", "continue" }
    /\ hist.genieRuns > 0 /\ HasFailureWord(toolOut)
    => IsInfix(toolOut, result.response)

\* C15: query returns a success = FALSE record only after the direct attempt, the
\* agentic attempt and the direct retry were all made in the call.
C15_FailureOnlyAfterAllPaths ==
    Returned_("query") /\ ~result.success
      => hist.directRuns = 2 /\ hist.agentRuns = 1

\* _start_conversation gave up after a 401 or a 403
AuthRefused ==
    frame.last_error \in { StartErrorText("401"), StartErrorText("403") }

ProbeInRange ==
    /\ Len(endpoints_to_try) = start_endpoints
    /\ pc = "start" => frame.i \in DOMAIN endpoints_to_try
    /\ StartFailedReturn => frame.i = start_endpoints \/ AuthRefused

ProbeStep ==
    /\ pc # "start" /\ pc' = "start" => frame'.i = 1
    /\ pc = "start" /\ pc' = "start" => frame'.i = frame.i + 1
    /\ pc = "start" => pc' \in { "start", "poll", "run_ret" }

\* C16 as stated: _start_conversation gives up only after all four endpoint
\* variants were attempted.
C16_ProbesAllFour == StartFailedReturn => frame.i = start_endpoints

\* C16 amended: the variants are requested in the order of endpoints_to_try, one
\* after the other from the first, and the probing stops only on a 200, on a 401
\* or 403, or after the fourth.
C16_ProbesInOrder == []ProbeInRange /\ [][ProbeStep]_vars

C16_Witness ==
    /\ StartFailedReturn /\ frame.i = start_endpoints
    /\ frame.last_error = StartErrorText("404")

\* what _run returns for a failure of the conversation client
ClientFailureTexts(q) ==
    { SendFailedText, QueryFailedText, RunTimeoutText(q), TokenPlaceholderText,
      SpacePlaceholderText, RunErrorText(NotIterableText),
      StartFailedText(UnknownErrorText) }
      \cup { StartFailedText(StartErrorText(code)) : code \in StartFailureCodes }

\* C17: the enhancement tool is called only in a direct call sequence, and never
\* when GenieQueryTool._run returned the text of a failure.
C17_EnhanceOnlyAfterAnswer ==
    pc = "enhance" /\ call = "query"
      => /\ phase \in { "direct", "retry" }
         /\ toolOut \notin ClientFailureTexts(question)

\* C18: a ResponseEnhancementTool with an empty endpoint name returns the draft
\* it was given, and makes no request.
C18_UnconfiguredIsIdentity ==
    phase = "enhance_tool" /\ Falsy(cfg.serving_endpoint_name)
      => pc = "enhance_ret" /\ toolOut = base_response /\ payload_i = 0

C18_Witness ==
    /\ phase = "enhance_tool" /\ pc = "enhance_ret"
    /\ Falsy(cfg.serving_endpoint_name) /\ ~Falsy(cfg.host)
    /\ toolOut = <<"Sales grew">>

\* ResponseEnhancementTool._run returned in this call after making requests
EnhanceReturned ==
    \/ phase = "enhance_tool" /\ pc = "enhance_ret" /\ payload_i > 0
    \/ phase \in { "direct", "retry" } /\ pc = "direct_ret" /\ payload_i > 0

EnhancedText ==
    IF phase = "enhance_tool" THEN toolOut ELSE direct_outcome.value.response

\* C19: ResponseEnhancementTool._run never raises; it makes at most one request
\* for each of the two payload formats, in their order; it returns at the first
\* request that gives a text, and after both requests failed it returns the
\* draft.
C19_EnhanceBestEffort ==
    /\ pc # "raised"
    /\ pc = "enhance"
         => /\ payload_i \in 1..payload_formats
            /\ hist.enhanceFailed = payload_i - 1
            /\ ENABLED enhance_response
    /\ EnhanceReturned
         => /\ payload_i \in 1..payload_formats
            /\ hist.enhanceFailed \in { payload_i - 1, payload_i }
            /\ hist.enhanceFailed = payload_i
                 => payload_i = payload_formats /\ EnhancedText = base_response
            /\ hist.enhanceFailed = payload_i - 1
                 => EnhancedText \in EnhancedTexts \cup { base_response }

C19_Witness ==
    /\ phase = "enhance_tool" /\ pc = "enhance_ret"
    /\ payload_i = payload_formats /\ hist.enhanceFailed = payload_formats
    /\ toolOut = base_response

\* one of host, token and space id is empty
MockMode == cfg.host = "" \/ cfg.token = "" \/ cfg.space_id = ""

\* C20: with an empty host, token or space id GenieQueryTool._run makes no
\* request and returns the canned text of its question, and query returns
\* success = TRUE.
C20_MockMode ==
    MockMode
      => /\ ~hist.started /\ hist.postedTo = None /\ ~hist.completed
         /\ pc \notin { "start", "create", "poll", "attach", "fetch" }
         /\ pc = "run_ret" => toolOut = mock_response(frame.query)
         /\ Returned_("query") => result.success /\ hist.agentRuns = 0

C20_Witness ==
    /\ Returned_("query") /\ cfg.token = "" /\ cfg.host # "" /\ cfg.space_id # ""
    /\ result.success /\ hist.genieRuns = 1
    /\ IsInfix(mock_response(question), result.response)

\* the positions inside GenieQueryTool._run
RunPcs == { "run_entry", "start", "create", "poll", "attach", "fetch" }

\* C21: GenieQueryTool._run never raises: from every position inside it the run
\* goes on, and it ends with the return of a non-empty value, which is the text
\* of the failure when starting, posting or polling failed.
C21_RunNeverRaises ==
    /\ pc # "raised"
    /\ pc \in RunPcs => ENABLED ToolNext
    /\ pc = "run_ret"
         => /\ toolOut # <<>>
            /\ frame.status = "FAILED" => toolOut = QueryFailedText
            /\ frame.status = "TIMED_OUT" => toolOut = RunTimeoutText(frame.query)
            /\ frame.status = "NONE" /\ ~MockMode
                 => toolOut \in ClientFailureTexts(frame.query)

C21_Witness ==
    /\ pc = "run_ret" /\ phase = "tool"
    /\ toolOut = StartFailedText(UnknownErrorText)
    /\ frame.last_error = StartErrorText("timeout")

PollWaits ==
    pc = "poll"
      => \/ frame.elapsed = 0 /\ frame.fetch_end = 0
         \/ frame.elapsed = Min(max_wait, frame.fetch_end + poll_sleep)

PollDelayStep ==
    /\ pc = "poll" /\ pc' = "poll"
         => /\ frame.elapsed < max_wait
            /\ frame'.elapsed >= Min(max_wait, frame.elapsed + poll_sleep)
    /\ pc = "poll" /\ pc' # "poll" /\ frame.elapsed < max_wait
         => frame'.observed \in { "COMPLETED", "FAILED" }
    /\ pc = "poll" /\ frame.elapsed >= max_wait
         => pc' = "run_ret" /\ frame'.status = "TIMED_OUT"

\* C22: after every status request that does not end the poll the next budget
\* test comes poll_sleep after the request ended; before the budget has elapsed
\* the poll ends only on COMPLETED or FAILED; once it has elapsed no request is
\* made and the poll ends TIMED_OUT.
C22_PollDelay == []PollWaits /\ [][PollDelayStep]_vars

C22_Witness ==
    /\ pc = "poll" /\ frame.fetch_end = request_timeout
    /\ frame.elapsed = request_timeout + poll_sleep

\* C23: between calls the conversation id stored in the session is the id of
\* the conversation the tool last started or posted to.
C23_SessionHandleIsLastPosted ==
    pc = "idle" /\ session_cid # None => session_cid = genie.conversation_id

\* C24: outside SQLQueryTool._run no connection and no cursor is open, whatever
\* way _run ended, and with an empty host, token or warehouse id none was opened.
C24_WarehouseReleased ==
    /\ pc \notin { "sql_cursor", "sql_execute" }
         => warehouse.connection # "open" /\ warehouse.cursor # "open"
    /\ pc = "sql_cursor" => warehouse.connection = "open" /\ warehouse.cursor = "none"
    /\ pc = "sql_ret"
          /\ (cfg.host = "" \/ cfg.token = "" \/ warehouse.warehouse_id = "")
         => /\ warehouse.connection = "none" /\ warehouse.cursor = "none"
            /\ toolOut = SqlLocalModeText
    /\ phase = "sql_tool" => pc \in { "sql_cursor", "sql_execute", "sql_ret" }

C24_Witness ==
    /\ pc = "sql_ret" /\ Contains(toolOut, "Error")
    /\ warehouse.connection = "closed" /\ warehouse.cursor = "closed"

\* the SQL text and the table of the record come from one query_result
\* attachment of the message the call received
FromAnsweredMessage ==
    /\ result.sql_query # None
         => \E k \in DOMAIN hist.received :
              /\ hist.received[k].type = "query_result"
              /\ hist.received[k].query = result.sql_query
    /\ result.dataframe # None
         => result.dataframe = hist.fetched /\ result.sql_query # None

\* C25: the SQL text and the table of a success record query returns come from
\* the same attachment of the message answered in that call (stated for the
\* calls that ran the client once, so that the message is that run's).
C25_SqlAndTableFromSameAttachment ==
    Returned_("query") /\ result.success /\ hist.genieRuns = 1
      => FromAnsweredMessage

C27_QueryReturns == (call = "query") ~> (call = "query" /\ pc = "done")

C27_Witness ==
    /\ call = "query" /\ phase = "retry" /\ pc = "poll"
    /\ frame.elapsed >= max_wait

UsedStep ==
    /\ used => used'
    /\ pc # "run_entry" /\ pc' = "run_entry" /\ phase' = "agent" => ~used /\ used'
    /\ used /\ pc = "agent" /\ agent_reqs' = agent_reqs + 1
         => /\ observation' = ToolUsedText
            /\ hist'.genieRuns = hist.genieRuns
            /\ pc' = "agent"

\* C28: ForceCompletionTool.used, once set, stays set; the agent path enters the
\* wrapped tool only with the flag unset, setting it; and every tool request
\* made with the flag set is answered "Tool already used" with no client call.
C28_UsedNeverReset == [][UsedStep]_vars

C28_Witness ==
    /\ used /\ call = "continue" /\ pc = "agent"
    /\ observation = ToolUsedText /\ hist.genieRuns = 0

AuthTexts == { StartErrorText("401"), StartErrorText("403") }

ProbeOutcomeStep ==
    pc = "start"
      => /\ pc' = "start"
              => frame'.last_error \notin AuthTexts /\ frame'.i = frame.i + 1
         /\ pc' = "run_ret" /\ frame.i < start_endpoints /\ toolOut' # SendFailedText
              => frame'.last_error \in AuthTexts
         /\ frame'.last_error \in AuthTexts => pc' = "run_ret"

\* C29: a 401 or 403 ends _start_conversation at once, and every other failure
\* of a request before the last variant moves on to the next variant.
C29_AuthStopsProbing == [][ProbeOutcomeStep]_vars

C29_Witness ==
    /\ StartFailedReturn /\ frame.i = 2
    /\ frame.last_error = StartErrorText("403")

StartFailureFrame ==
    /\ pc \in { "run_entry", "start" } /\ pc' = "start" => genie' = genie
    /\ pc = "start" /\ pc' = "run_ret" /\ toolOut' # SendFailedText
         => /\ toolOut'[1] = "Failed"
            /\ toolOut'[2] = "to start conversation with Genie."
            /\ genie'.conversation_id = genie.conversation_id
            /\ genie'.last_sql_query = genie.last_sql_query
            /\ genie'.result_dataframe = genie.result_dataframe

\* C30: a _run in which no conversation starts returns a "Failed to start
\* conversation" text and leaves the tool's conversation id, SQL text and table
\* as they were when it was entered.
C30_StartFailureKeepsState == [][StartFailureFrame]_vars

C30_Witness ==
    /\ StartFailedReturn /\ genie.conversation_id = "c1"
    /\ genie.last_sql_query = "SELECT a" /\ genie.result_dataframe = "T1"

=============================================================================
